---- MODULE Spec2Model ----
(***************************************************************************)
(* neurodsp.plts.spectral: the five plotting functions of the module, as   *)
(* the drawing commands each call issues for the arguments it is given.    *)
(*                                                                         *)
(* A call is one action: the state before it holds the arguments (call),   *)
(* the state after it holds what the call left behind: the figure/axes it  *)
(* drew on, the draw commands in the order issued, the axis labels, and    *)
(* the exception it raised, if any.                                        *)
(***************************************************************************)
EXTENDS Integers, Sequences, FiniteSets

VARIABLES
    call,     \* the function called and its arguments
    pc,       \* "called": arguments bound, body not run; "done": returned; "raised": exception
    error,    \* name of the exception raised, "none" if none
    canvas,   \* the axes / figure the call draws on
    draws,    \* draw commands issued, in order
    xlabel,   \* x axis label, "" while unset
    ylabel,   \* y axis label, "" while unset
    prev      \* the previous call of the process and the figure it created

vars == <<call, pc, error, canvas, draws, xlabel, ylabel, prev>>

----------------------------------------------------------------------------
(* Bounds of the model *)

MaxSeries == 3      \* longest list of series / labels / frequency vectors
MaxColors == 2      \* longest list of colors
MaxBins == 4        \* most power bins of a histogram
MaxSpec == 3        \* longest overlay spectrum
MaxReps == 2        \* most resampling repetitions (columns of scv_rs)

----------------------------------------------------------------------------
(* Python values: every value carries its runtime type, which the code     *)
(* inspects with isinstance / "is None".                                   *)

None == [type |-> "NoneType", val |-> <<>>]
Str(s) == [type |-> "str", val |-> <<s>>]
NdArray(v) == [type |-> "ndarray", val |-> v]
List(items) == [type |-> "list", val |-> items]

IsNone(x) == x.type = "NoneType"
IsNdArray(x) == x.type = "ndarray"
IsList(x) == x.type = "list"

SeqsUpTo(S, lo, hi) == UNION {[1..n -> S] : n \in lo..hi}

Min(a, b) == IF a <= b THEN a ELSE b

----------------------------------------------------------------------------
(* itertools iterators and zip *)

Repeat(x) == [type |-> "repeat", val |-> <<x>>]
Cycle(items) == [type |-> "cycle", val |-> items]

\* the i-th (1-based) item x yields
ItemAt(x, i) ==
    CASE x.type = "repeat" -> x.val[1]
      [] x.type = "cycle" -> x.val[((i - 1) % Len(x.val)) + 1]
      [] OTHER -> x.val[i]

\* how many items x yields within the first n
YieldsWithin(x, n) ==
    CASE x.type = "repeat" -> n
      [] x.type = "cycle" -> IF Len(x.val) = 0 THEN 0 ELSE n
      [] OTHER -> Min(Len(x.val), n)

\* zip(a, b, c) with b finite: stops at the shortest
Zip3(a, b, c) ==
    LET n == YieldsWithin(a, YieldsWithin(c, Len(b.val)))
    IN  [i \in 1..n |-> <<ItemAt(a, i), ItemAt(b, i), ItemAt(c, i)>>]

----------------------------------------------------------------------------
(* check_ax: the axes to draw on *)

NewAxes(w, h) == [kind |-> "new", figsize |-> <<w, h>>]
CallerAxes == [kind |-> "caller", figsize |-> <<0, 0>>]
NoCanvas == [kind |-> "none", figsize |-> <<0, 0>>]

check_ax(ax, w, h) == IF IsNone(ax) THEN NewAxes(w, h) ELSE CallerAxes

----------------------------------------------------------------------------
(* plot_power_spectra *)

FreqVecs == {<<1, 2, 4>>, <<2, 4, 8>>}
PowerVecs == {<<10, 5, 2>>, <<9, 3, 1>>}
LabelStrs == {"a", "b"}
ColorStrs == {"r", "g"}

SpectraFreqs ==
    {NdArray(v) : v \in FreqVecs}
    \cup {List(l) : l \in SeqsUpTo({NdArray(v) : v \in FreqVecs}, 0, MaxSeries)}
SpectraPowers ==
    {NdArray(v) : v \in PowerVecs}
    \cup {List(l) : l \in SeqsUpTo({NdArray(v) : v \in PowerVecs}, 0, MaxSeries)}
SpectraLabels ==
    {None} \cup {Str(s) : s \in LabelStrs}
    \cup {List(l) : l \in SeqsUpTo({Str(s) : s \in LabelStrs}, 0, MaxSeries)}
SpectraColors ==
    {None} \cup {Str(s) : s \in ColorStrs}
    \cup {List(l) : l \in SeqsUpTo({Str(s) : s \in ColorStrs}, 1, MaxColors)}
AxArgs == {None, [type |-> "Axes", val |-> <<>>]}

SpectraCalls ==
    [fn : {"plot_power_spectra"}, freqs : SpectraFreqs, powers : SpectraPowers,
     labels : SpectraLabels, colors : SpectraColors, ax : AxArgs]

\* mutant: a single frequency vector wrapped like powers instead of repeated
NormFreqsWrapped(freqs) == IF IsNdArray(freqs) THEN List(<<freqs>>) ELSE freqs

\* line 50
NormFreqs(freqs) == IF IsNdArray(freqs) THEN Repeat(freqs) ELSE freqs

\* line 51
NormPowers(powers) == IF IsNdArray(powers) THEN List(<<powers>>) ELSE powers

\* mutant: every given labels value wrapped, a list included
NormLabelsAlwaysWrapped(labels) ==
    IF ~IsNone(labels) THEN List(<<labels>>) ELSE Repeat(labels)

\* mutant: a list of labels cycled, as the colors are meant to be
NormLabelsCycled(labels) ==
    IF ~IsNone(labels)
    THEN IF ~IsList(labels) THEN List(<<labels>>) ELSE Cycle(labels.val)
    ELSE Repeat(labels)

\* lines 53-56
NormLabels(labels) ==
    IF ~IsNone(labels)
    THEN IF ~IsList(labels) THEN List(<<labels>>) ELSE labels
    ELSE Repeat(labels)

\* lines 58-59: "cycle" is not imported by the module, so the list branch
\* raises NameError; the result is bound to colors and not read again
ColorsError(colors) ==
    IF ~IsNone(colors) /\ IsList(colors) THEN "NameError" ELSE "none"

\* line 62: the only keyword passed to loglog is label
SpectraLine(freq, power, label) ==
    [fn |-> "loglog", x |-> freq, y |-> power, kw |-> [label |-> label]]

\* lines 61-62
SpectraDraws(freqs, powers, labels) ==
    LET z == Zip3(NormFreqs(freqs), NormPowers(powers), NormLabels(labels))
    IN  [i \in 1..Len(z) |-> SpectraLine(z[i][1], z[i][2], z[i][3])]

plot_power_spectra ==
    /\ pc = "called"
    /\ call.fn = "plot_power_spectra"
    /\ canvas' = check_ax(call.ax, 6, 6)
    /\ error' = ColorsError(call.colors)
    /\ IF error' = "none"
       THEN /\ draws' = SpectraDraws(call.freqs, call.powers, call.labels)
            /\ xlabel' = "Frequency (Hz)"
            /\ ylabel' = "Power (V^2/Hz)"
            /\ pc' = "done"
       ELSE /\ pc' = "raised"
            /\ UNCHANGED <<draws, xlabel, ylabel>>
    /\ UNCHANGED <<call, prev>>

----------------------------------------------------------------------------
(* Floating point results, kept exact: a reduced fraction num/den *)

RECURSIVE Gcd(_, _)
Gcd(a, b) == IF b = 0 THEN a ELSE Gcd(b, a % b)

Float(n, d) == LET g == Gcd(n, d) IN [num |-> n \div g, den |-> d \div g]

\* np.log10 on the powers of ten the inputs are drawn from
Pow10 == {1, 10}
Log10(v) == CASE v = 1 -> 0 [] v = 10 -> 1

RECURSIVE Sum(_)
Sum(s) == IF s = <<>> THEN 0 ELSE Head(s) + Sum(Tail(s))

\* the F x R matrices over S, as a sequence of F rows
Matrices(F, R, S) == [1..F -> [1..R -> S]]

----------------------------------------------------------------------------
(* plot_scv *)

ScvVecs == {<<1, 1, 2>>, <<2, 1, 1>>}

ScvCalls ==
    [fn : {"plot_scv"}, freqs : {NdArray(v) : v \in FreqVecs},
     scv : {NdArray(v) : v \in ScvVecs}, ax : AxArgs]

plot_scv ==
    /\ pc = "called"
    /\ call.fn = "plot_scv"
    /\ canvas' = check_ax(call.ax, 5, 5)
    /\ draws' = <<[fn |-> "loglog", x |-> call.freqs, y |-> call.scv, kw |-> <<>>]>>
    /\ xlabel' = "Frequency (Hz)"
    /\ ylabel' = "SCV"
    /\ pc' = "done"
    /\ UNCHANGED <<call, error, prev>>

----------------------------------------------------------------------------
(* plot_scv_rs_lines *)

LinesFreqVecs == {<<1, 2>>, <<1, 2, 4>>}
ScvVals == {1, 2}

ScvRsLinesCalls ==
    UNION {[fn : {"plot_scv_rs_lines"}, freqs : {NdArray(f)},
            scv_rs : {NdArray(m) : m \in Matrices(Len(f), R, ScvVals)}, ax : AxArgs]
           : f \in LinesFreqVecs, R \in 1..MaxReps}

\* mutant: np.mean(a, axis=0), the mean of each column
np_mean_axis0(a) ==
    NdArray([c \in 1..Len(a.val[1]) |->
                Float(Sum([i \in 1..Len(a.val) |-> a.val[i][c]]), Len(a.val))])

\* np.mean(a, axis=1): the mean of each row
np_mean_axis1(a) ==
    NdArray([i \in 1..Len(a.val) |-> Float(Sum(a.val[i]), Len(a.val[i]))])

\* lines 139-141
ScvRsLinesDraws(freqs, scv_rs) ==
    << [fn |-> "loglog", x |-> freqs, y |-> scv_rs,
        kw |-> [fmt |-> "k", alpha |-> Float(1, 10)]],
       [fn |-> "loglog", x |-> freqs, y |-> np_mean_axis1(scv_rs), kw |-> [lw |-> 2]],
       [fn |-> "loglog", x |-> freqs,
        y |-> List([i \in 1..Len(freqs.val) |-> Float(1, 1)]), kw |-> <<>>] >>

plot_scv_rs_lines ==
    /\ pc = "called"
    /\ call.fn = "plot_scv_rs_lines"
    /\ canvas' = check_ax(call.ax, 8, 8)
    /\ draws' = ScvRsLinesDraws(call.freqs, call.scv_rs)
    /\ xlabel' = "Frequency (Hz)"
    /\ ylabel' = "SCV"
    /\ pc' = "done"
    /\ UNCHANGED <<call, error, prev>>

----------------------------------------------------------------------------
(* plot_scv_rs_matrix *)

MatrixFreqVecs == {<<>>, <<1, 2>>, <<2, 4, 8>>}
TimeVecs == {<<>>, <<0, 5>>, <<3, 4, 6>>}

ScvRsMatrixCalls ==
    UNION {[fn : {"plot_scv_rs_matrix"}, freqs : {NdArray(f)}, t_inds : {NdArray(t)},
            scv_rs : {NdArray(m) : m \in Matrices(Len(f), Len(t), Pow10)}]
           : f \in MatrixFreqVecs, t \in TimeVecs}

\* np.log10 of a 2d array, element by element
np_log10_2d(a) ==
    NdArray([i \in 1..Len(a.val) |-> [j \in 1..Len(a.val[i]) |-> Log10(a.val[i][j])]])

\* a[0] and a[-1]
First(a) == a.val[1]
Last(a) == a.val[Len(a.val)]

\* mutant: the frequency axis not inverted
MatrixExtentUpright(freqs, t_inds) ==
    <<First(t_inds), Last(t_inds), First(freqs), Last(freqs)>>

\* line 182: (left, right, bottom, top)
MatrixExtent(freqs, t_inds) == <<First(t_inds), Last(t_inds), Last(freqs), First(freqs)>>

\* indexing an empty array raises IndexError
MatrixError(freqs, t_inds) ==
    IF Len(t_inds.val) = 0 \/ Len(freqs.val) = 0 THEN "IndexError" ELSE "none"

plot_scv_rs_matrix ==
    /\ pc = "called"
    /\ call.fn = "plot_scv_rs_matrix"
    /\ canvas' = NewAxes(10, 5)
    /\ error' = MatrixError(call.freqs, call.t_inds)
    /\ IF error' = "none"
       THEN /\ draws' = << [fn |-> "imshow", data |-> np_log10_2d(call.scv_rs),
                            kw |-> [aspect |-> "auto",
                                    extent |-> MatrixExtent(call.freqs, call.t_inds)]],
                           [fn |-> "colorbar", kw |-> [label |-> "SCV"]] >>
            /\ xlabel' = "Time (s)"
            /\ ylabel' = "Frequency (Hz)"
            /\ pc' = "done"
       ELSE /\ pc' = "raised"
            /\ UNCHANGED <<draws, xlabel, ylabel>>
    /\ UNCHANGED <<call, prev>>

----------------------------------------------------------------------------
(* plot_spectral_hist *)

HistFreqVecs == {<<2, 4>>, <<1, 2, 4>>, <<1, 2, 3, 4, 5>>}
SpecFreqVals == {1, 2, 3, 4}
HistFills == {0, 1}

\* power bins 1, 2, .., n
PowerBins(n) == [i \in 1..n |-> i]

\* the overlay arguments: each omitted or an array
OverlayFreqs == {None} \cup {NdArray(v) : v \in SeqsUpTo(SpecFreqVals, 1, MaxSpec)}
OverlaySpectra == {None} \cup {NdArray(v) : v \in SeqsUpTo(Pow10, 1, MaxSpec)}

HistCallsWith(SF, SP) ==
    UNION {[fn : {"plot_spectral_hist"}, freqs : {NdArray(f)},
            power_bins : {NdArray(PowerBins(n))},
            spectral_hist : {NdArray([i \in 1..n |-> [j \in 1..Len(f) |-> p]])
                             : p \in HistFills},
            spectrum_freqs : SF, spectrum : SP]
           : f \in HistFreqVecs, n \in 1..MaxBins}

HistCalls == HistCallsWith(OverlayFreqs, OverlaySpectra)

\* mutant: the ratio taken the other way round
HistFigsizeInverse(freqs, power_bins) ==
    <<8, Float(12 * Len(freqs.val), Len(power_bins.val))>>

\* line 225: figsize=(8, 12 * len(power_bins) / len(freqs)), a true division
HistFigsize(freqs, power_bins) ==
    <<8, Float(12 * Len(power_bins.val), Len(freqs.val))>>

\* line 228
HistExtent(freqs, power_bins) ==
    <<First(freqs), Last(freqs), First(power_bins), Last(power_bins)>>

\* mutant: the upper bound exclusive
PltIndsExclusive(spectrum_freqs, freqs) ==
    [j \in 1..Len(spectrum_freqs.val) |->
        spectrum_freqs.val[j] >= First(freqs) /\ spectrum_freqs.val[j] < Last(freqs)]

\* line 238: np.logical_and(spectrum_freqs >= freqs[0], spectrum_freqs <= freqs[-1])
PltInds(spectrum_freqs, freqs) ==
    [j \in 1..Len(spectrum_freqs.val) |->
        spectrum_freqs.val[j] >= First(freqs) /\ spectrum_freqs.val[j] <= Last(freqs)]

\* a[mask] for a boolean mask of the length of a
RECURSIVE Masked(_, _)
Masked(v, mask) ==
    IF v = <<>> THEN <<>>
    ELSE (IF Head(mask) THEN <<Head(v)>> ELSE <<>>) \o Masked(Tail(v), Tail(mask))

BoolIndex(a, mask) == NdArray(Masked(a.val, mask))

\* np.log10 of a 1d array
np_log10(a) == NdArray([i \in 1..Len(a.val) |-> Log10(a.val[i])])

\* mutant: the overlay keyed on spectrum_freqs
OverlayRequestedByFreqs(spectrum_freqs, spectrum) == ~IsNone(spectrum_freqs)

\* line 237
OverlayRequested(spectrum_freqs, spectrum) == ~IsNone(spectrum)

\* lines 238-239: comparing or indexing None raises TypeError; a boolean
\* mask of another length than the array it indexes raises IndexError
OverlayError(spectrum_freqs, spectrum) ==
    CASE IsNone(spectrum_freqs) -> "TypeError"
      [] Len(spectrum_freqs.val) # Len(spectrum.val) -> "IndexError"
      [] OTHER -> "none"

\* line 239
OverlayDraw(freqs, spectrum_freqs, spectrum) ==
    LET plt_inds == PltInds(spectrum_freqs, freqs)
    IN  [fn |-> "plot", x |-> BoolIndex(spectrum_freqs, plt_inds),
         y |-> np_log10(BoolIndex(spectrum, plt_inds)),
         kw |-> [color |-> "w", alpha |-> Float(8, 10)]]

\* lines 228-231
HistImage(freqs, power_bins, spectral_hist) ==
    << [fn |-> "imshow", data |-> spectral_hist,
        kw |-> [extent |-> HistExtent(freqs, power_bins), aspect |-> "auto"]],
       [fn |-> "colorbar", kw |-> [label |-> "Probability"]] >>

plot_spectral_hist ==
    /\ pc = "called"
    /\ call.fn = "plot_spectral_hist"
    /\ canvas' = NewAxes(HistFigsize(call.freqs, call.power_bins)[1],
                         HistFigsize(call.freqs, call.power_bins)[2])
    /\ xlabel' = "Frequency (Hz)"
    /\ ylabel' = "Log10 Power"
    /\ IF OverlayRequested(call.spectrum_freqs, call.spectrum)
       THEN /\ error' = OverlayError(call.spectrum_freqs, call.spectrum)
            /\ IF error' = "none"
               THEN /\ draws' = HistImage(call.freqs, call.power_bins, call.spectral_hist)
                                \o <<OverlayDraw(call.freqs, call.spectrum_freqs,
                                                 call.spectrum)>>
                    /\ pc' = "done"
               ELSE /\ draws' = HistImage(call.freqs, call.power_bins, call.spectral_hist)
                    /\ pc' = "raised"
       ELSE /\ draws' = HistImage(call.freqs, call.power_bins, call.spectral_hist)
            /\ pc' = "done"
            /\ UNCHANGED error
    /\ UNCHANGED <<call, prev>>

----------------------------------------------------------------------------

Called(c) ==
    /\ call = c
    /\ pc = "called"
    /\ error = "none"
    /\ canvas = NoCanvas
    /\ draws = <<>>
    /\ xlabel = ""
    /\ ylabel = ""

NoPrev == [call |-> [fn |-> "none"], canvas |-> NoCanvas]

InitSpectra == \E c \in SpectraCalls : Called(c) /\ prev = NoPrev

\* the caller calls again: the call that ended becomes the previous one
NewCall(Calls) ==
    /\ pc \in {"done", "raised"}
    /\ prev' = [call |-> call, canvas |-> canvas]
    /\ \E c \in Calls : call' = c
    /\ pc' = "called"
    /\ error' = "none"
    /\ canvas' = NoCanvas
    /\ draws' = <<>>
    /\ xlabel' = ""
    /\ ylabel' = ""

NextSpectra == plot_power_spectra

SpecSpectra == InitSpectra /\ [][NextSpectra]_vars

InitHist == \E c \in HistCalls : Called(c) /\ prev = NoPrev

NextHist == plot_spectral_hist

SpecHist == InitHist /\ [][NextHist]_vars

\* successive histogram calls without overlay
HistSeqCalls == HistCallsWith({None}, {None})

InitHistSeq == \E c \in HistSeqCalls : Called(c) /\ prev = NoPrev

NextHistSeq ==
    \/ plot_spectral_hist
    \/ NewCall(HistSeqCalls)

SpecHistSeq == InitHistSeq /\ [][NextHistSeq]_vars

InitScv ==
    \E c \in ScvCalls \cup ScvRsLinesCalls \cup ScvRsMatrixCalls : Called(c) /\ prev = NoPrev

NextScv ==
    \/ plot_scv
    \/ plot_scv_rs_lines
    \/ plot_scv_rs_matrix

SpecScv == InitScv /\ [][NextScv]_vars

\* one call of any of the five functions
Init == InitSpectra \/ InitHist \/ InitScv

Next ==
    \/ plot_power_spectra
    \/ plot_scv
    \/ plot_scv_rs_lines
    \/ plot_scv_rs_matrix
    \/ plot_spectral_hist

Spec == Init /\ [][Next]_vars

----------------------------------------------------------------------------
(* Properties of plot_power_spectra, checked under SpecSpectra *)

Returned == pc # "called"

\* the power series of the call, in order: a single array is one series
Series == IF IsNdArray(call.powers) THEN <<call.powers>> ELSE call.powers.val

\* the frequency vector paired with the i-th series
FreqOf(i) == IF IsNdArray(call.freqs) THEN call.freqs ELSE call.freqs.val[i]

\* freqs is one vector, or a list with one vector per series
FreqsCoverSeries == IsNdArray(call.freqs) \/ Len(call.freqs.val) = Len(Series)

IsStr(x) == x.type = "str"

\* C1: with freqs a single array F, N >= 1 power series and labels and
\* colors omitted, the call returns having issued exactly N loglog draws, the
\* i-th with x = F and y = the i-th series, and none carries a label.
C1_BroadcastDraws ==
    (/\ Returned
     /\ call.fn = "plot_power_spectra"
     /\ IsNdArray(call.freqs)
     /\ Len(Series) >= 1
     /\ IsNone(call.labels)
     /\ IsNone(call.colors))
    => /\ pc = "done"
       /\ Len(draws) = Len(Series)
       /\ \A i \in 1..Len(Series) :
            /\ draws[i].fn = "loglog"
            /\ draws[i].x = call.freqs
            /\ draws[i].y = Series[i]
            /\ IsNone(draws[i].kw.label)

C1_Witness ==
    /\ pc = "done"
    /\ call.fn = "plot_power_spectra"
    /\ IsNdArray(call.freqs)
    /\ IsList(call.powers)
    /\ Len(Series) = 3
    /\ Series[1] # Series[2]
    /\ IsNone(call.labels)
    /\ IsNone(call.colors)
    /\ Len(draws) = 3

\* C2: with N power series and labels a list of exactly N strings (colors
\* omitted, freqs one vector or one vector per series), the call returns
\* having issued exactly N draws and the i-th draw carries the i-th label.
C2_LabelsPositional ==
    (/\ Returned
     /\ call.fn = "plot_power_spectra"
     /\ FreqsCoverSeries
     /\ IsList(call.labels)
     /\ Len(call.labels.val) = Len(Series)
     /\ IsNone(call.colors))
    => /\ pc = "done"
       /\ Len(draws) = Len(Series)
       /\ \A i \in 1..Len(Series) :
            /\ draws[i].y = Series[i]
            /\ IsStr(draws[i].kw.label)
            /\ draws[i].kw.label = call.labels.val[i]

C2_Witness ==
    /\ pc = "done"
    /\ call.fn = "plot_power_spectra"
    /\ IsList(call.labels)
    /\ Len(Series) = 3
    /\ call.labels.val = <<Str("a"), Str("b"), Str("a")>>
    /\ IsNone(call.colors)
    /\ Len(draws) = 3
    /\ draws[2].kw.label = Str("b")

\* C3: with N >= 1 power series and labels a single string s, all N lines
\* are drawn and each carries the label s.
C3_SingleLabelBroadcast ==
    (/\ Returned
     /\ call.fn = "plot_power_spectra"
     /\ FreqsCoverSeries
     /\ Len(Series) >= 1
     /\ IsStr(call.labels)
     /\ IsNone(call.colors))
    => /\ pc = "done"
       /\ Len(draws) = Len(Series)
       /\ \A i \in 1..Len(draws) : draws[i].kw.label = call.labels

\* C4: with N power series and colors a list of M colors, 1 <= M < N, the
\* call completes without error and draws N lines, the i-th (0-based) in
\* colors[i mod M].
C4_ColorsCycled ==
    (/\ Returned
     /\ call.fn = "plot_power_spectra"
     /\ FreqsCoverSeries
     /\ IsNone(call.labels)
     /\ IsList(call.colors)
     /\ Len(call.colors.val) >= 1
     /\ Len(call.colors.val) < Len(Series))
    => /\ pc = "done"
       /\ error = "none"
       /\ Len(draws) = Len(Series)
       /\ \A i \in 1..Len(draws) :
            /\ "color" \in DOMAIN draws[i].kw
            /\ draws[i].kw.color = call.colors.val[((i - 1) % Len(call.colors.val)) + 1]

\* C10: with N power series and labels a list of K < N labels (colors
\* omitted, freqs one vector or one vector per series), the call raises no
\* error and draws exactly the first K series, each with its positional
\* label; the other N - K series are not drawn and the axis labels are set.
C10_ShortLabelsTruncate ==
    (/\ Returned
     /\ call.fn = "plot_power_spectra"
     /\ FreqsCoverSeries
     /\ IsList(call.labels)
     /\ Len(call.labels.val) < Len(Series)
     /\ IsNone(call.colors))
    => /\ pc = "done"
       /\ error = "none"
       /\ Len(draws) = Len(call.labels.val)
       /\ \A i \in 1..Len(call.labels.val) :
            /\ draws[i].x = FreqOf(i)
            /\ draws[i].y = Series[i]
            /\ draws[i].kw.label = call.labels.val[i]
       /\ xlabel = "Frequency (Hz)"
       /\ ylabel = "Power (V^2/Hz)"

C10_Witness ==
    /\ pc = "done"
    /\ call.fn = "plot_power_spectra"
    /\ Len(Series) = 3
    /\ IsList(call.labels)
    /\ Len(call.labels.val) = 1
    /\ IsNone(call.colors)
    /\ Len(draws) = 1
    /\ xlabel = "Frequency (Hz)"

----------------------------------------------------------------------------
(* Properties of plot_spectral_hist, checked under SpecHist and SpecHistSeq *)

\* the overlay draw commands among the draws
OverlayDraws == {i \in 1..Len(draws) : draws[i].fn = "plot"}

\* positions of spectrum_freqs within [freqs[0], freqs[-1]], both ends included
InRangePositions ==
    {j \in 1..Len(call.spectrum_freqs.val) :
        /\ call.freqs.val[1] <= call.spectrum_freqs.val[j]
        /\ call.spectrum_freqs.val[j] <= call.freqs.val[Len(call.freqs.val)]}

\* the k-th in-range position, counted in the order of the array
KthInRange(k) ==
    CHOOSE j \in InRangePositions :
        Cardinality({i \in InRangePositions : i < j}) = k - 1

\* C5: with spectrum_freqs and spectrum both supplied (and of one length),
\* the call issues one overlay draw whose points are exactly the positions j
\* with freqs[0] <= spectrum_freqs[j] <= freqs[-1], in their original order:
\* x = spectrum_freqs[j], y = log10(spectrum[j]).
C5_OverlayInRange ==
    (/\ Returned
     /\ call.fn = "plot_spectral_hist"
     /\ ~IsNone(call.spectrum_freqs)
     /\ ~IsNone(call.spectrum)
     /\ Len(call.spectrum_freqs.val) = Len(call.spectrum.val))
    => /\ pc = "done"
       /\ OverlayDraws = {Len(draws)}
       /\ LET o == draws[Len(draws)]
              n == Cardinality(InRangePositions)
          IN  /\ Len(o.x.val) = n
              /\ Len(o.y.val) = n
              /\ \A k \in 1..n :
                    /\ o.x.val[k] = call.spectrum_freqs.val[KthInRange(k)]
                    /\ o.y.val[k] = Log10(call.spectrum.val[KthInRange(k)])

C5_Witness ==
    /\ pc = "done"
    /\ call.fn = "plot_spectral_hist"
    /\ call.freqs.val = <<2, 4>>
    /\ ~IsNone(call.spectrum_freqs)
    /\ call.spectrum_freqs.val = <<4, 1, 2>>
    /\ ~IsNone(call.spectrum)
    /\ call.spectrum.val = <<10, 1, 1>>
    /\ OverlayDraws # {}
    /\ draws[Len(draws)].x.val = <<4, 2>>
    /\ draws[Len(draws)].y.val = <<1, 0>>

OnlySpectrumFreqs == ~IsNone(call.spectrum_freqs) /\ IsNone(call.spectrum)
OnlySpectrum == IsNone(call.spectrum_freqs) /\ ~IsNone(call.spectrum)

\* C6 as stated: with exactly one of spectrum_freqs and spectrum supplied,
\* whichever it is, the call raises an error instead of completing, and the
\* overlay is drawn only when both are supplied.
C6_EitherAloneRaises ==
    (Returned /\ call.fn = "plot_spectral_hist")
    => /\ (OnlySpectrumFreqs \/ OnlySpectrum) => (pc = "raised" /\ error # "none")
       /\ OverlayDraws # {} => (~IsNone(call.spectrum_freqs) /\ ~IsNone(call.spectrum))

\* C6 amended: with only spectrum supplied the call raises an error on the
\* missing spectrum_freqs; with only spectrum_freqs supplied it completes
\* without error and draws no overlay; the overlay is drawn only when both
\* are supplied.
C6_OnlySpectrumRaises ==
    (Returned /\ call.fn = "plot_spectral_hist")
    => /\ OnlySpectrum => (pc = "raised" /\ error = "TypeError" /\ OverlayDraws = {})
       /\ OnlySpectrumFreqs => (pc = "done" /\ error = "none" /\ OverlayDraws = {})
       /\ OverlayDraws # {} => (~IsNone(call.spectrum_freqs) /\ ~IsNone(call.spectrum))

C6_Witness ==
    /\ pc = "done"
    /\ call.fn = "plot_spectral_hist"
    /\ OnlySpectrumFreqs
    /\ error = "none"
    /\ Len(draws) = 2
    /\ OverlayDraws = {}

NFreqs(c) == Len(c.freqs.val)
NBins(c) == Len(c.power_bins.val)

\* C7: the figure requested is 8 wide and 12 * len(power_bins) / len(freqs)
\* high; of two calls with the same len(freqs), the second with twice as many
\* power bins, the second figure is exactly twice as high and as wide.
C7_HeightScales ==
    (pc = "done" /\ call.fn = "plot_spectral_hist")
    => /\ canvas.kind = "new"
       /\ canvas.figsize[1] = 8
       /\ canvas.figsize[2].num * NFreqs(call) = 12 * NBins(call) * canvas.figsize[2].den
       /\ (/\ prev.call.fn = "plot_spectral_hist"
           /\ NFreqs(prev.call) = NFreqs(call)
           /\ NBins(call) = 2 * NBins(prev.call))
          => /\ canvas.figsize[1] = prev.canvas.figsize[1]
             /\ canvas.figsize[2].num * prev.canvas.figsize[2].den
                  = 2 * prev.canvas.figsize[2].num * canvas.figsize[2].den

C7_Witness ==
    /\ pc = "done"
    /\ call.fn = "plot_spectral_hist"
    /\ prev.call.fn = "plot_spectral_hist"
    /\ NFreqs(call) = 5
    /\ NFreqs(prev.call) = 5
    /\ NBins(prev.call) = 2
    /\ NBins(call) = 4
    /\ prev.canvas.figsize = <<8, [num |-> 24, den |-> 5]>>
    /\ canvas.figsize = <<8, [num |-> 48, den |-> 5]>>

----------------------------------------------------------------------------
(* Properties of plot_scv_rs_matrix and plot_scv_rs_lines, checked under SpecScv *)

\* C8: for non-empty freqs and t_inds the image is drawn with extent
\* (left, right, bottom, top) = (t_inds[0], t_inds[-1], freqs[-1], freqs[0]),
\* and always on a newly created 10 x 5 figure.
C8_MatrixExtent ==
    (Returned /\ call.fn = "plot_scv_rs_matrix")
    => /\ canvas = NewAxes(10, 5)
       /\ (Len(call.freqs.val) > 0 /\ Len(call.t_inds.val) > 0)
          => /\ pc = "done"
             /\ draws[1].fn = "imshow"
             /\ draws[1].kw.extent[1] = call.t_inds.val[1]
             /\ draws[1].kw.extent[2] = call.t_inds.val[Len(call.t_inds.val)]
             /\ draws[1].kw.extent[3] = call.freqs.val[Len(call.freqs.val)]
             /\ draws[1].kw.extent[4] = call.freqs.val[1]

C8_Witness ==
    /\ pc = "done"
    /\ call.fn = "plot_scv_rs_matrix"
    /\ call.freqs.val = <<2, 4, 8>>
    /\ call.t_inds.val = <<3, 4, 6>>
    /\ draws[1].kw.extent = <<3, 6, 8, 2>>
    /\ canvas.kind = "new"

\* the lines a loglog draw puts on the axes: one per column of a 2d y, one
\* for a 1d y; each line is its sequence of (x, y) points
LinesOfColumns(d) ==
    {[i \in 1..Len(d.x.val) |-> <<d.x.val[i], Float(d.y.val[i][c], 1)>>]
        : c \in 1..Len(d.y.val[1])}
LineOf(d) == [i \in 1..Len(d.x.val) |-> <<d.x.val[i], d.y.val[i]>>]

AllOnes(m) == \A i \in 1..Len(m) : \A c \in 1..Len(m[i]) : m[i][c] = 1

\* C9: with freqs of length F and scv_rs an F x R matrix the call issues
\* three draws in order: the R columns of scv_rs against freqs, the row-wise
\* mean over the R repetitions, and a reference line of F values all 1; when
\* scv_rs is all ones the R + 2 lines have the same F points.
C9_ThreeDraws ==
    (Returned /\ call.fn = "plot_scv_rs_lines")
    => LET F == Len(call.freqs.val)
           R == Len(call.scv_rs.val[1])
       IN  /\ pc = "done"
           /\ Len(draws) = 3
           /\ \A k \in 1..3 : draws[k].fn = "loglog" /\ draws[k].x = call.freqs
           /\ draws[1].y = call.scv_rs
           /\ \A i \in 1..F : Len(draws[1].y.val[i]) = R
           /\ Len(draws[2].y.val) = F
           /\ \A i \in 1..F :
                draws[2].y.val[i].num * R = draws[2].y.val[i].den * Sum(call.scv_rs.val[i])
           /\ Len(draws[3].y.val) = F
           /\ \A i \in 1..F : draws[3].y.val[i] = Float(1, 1)
           /\ AllOnes(call.scv_rs.val)
              => /\ LinesOfColumns(draws[1]) = {LineOf(draws[2])}
                 /\ LineOf(draws[2]) = LineOf(draws[3])
                 /\ Len(LineOf(draws[3])) = F

C9_Witness ==
    /\ pc = "done"
    /\ call.fn = "plot_scv_rs_lines"
    /\ Len(call.freqs.val) = 3
    /\ Len(call.scv_rs.val[1]) = 2
    /\ AllOnes(call.scv_rs.val)
    /\ Len(draws) = 3
    /\ LineOf(draws[2]) = LineOf(draws[3])

====
